---- MODULE Spec2Model ----
(***************************************************************************)
(* MorseBoard (src/Morseboard.ino): a Morse key polled by loop(), debounced,*)
(* timed by a four-state machine (IDLING, DOWN, LONGDOWN, RELEASE) and      *)
(* decoded by the hand-unrolled tree of decodeSymbol().                     *)
(*                                                                         *)
(* One step of the model is one call of loop() (or one step of setup()).    *)
(* millis() is sampled once per loop() call: all reads of millis() within   *)
(* one call see the same value.  The buzzer and the LED are not modelled;   *)
(* they are written and never read.                                         *)
(*                                                                         *)
(* The clock.  The code reads its timestamps only as millis() - stamp,      *)
(* compared with debounceDelay, 3*base*dit/2, base*characterspace and       *)
(* base*wordspace.  With base = 100 none of these exceeds Horizon = 700 ms. *)
(* So that the state space is finite without stopping the clock, every step *)
(* ends by moving the clock's origin forward once millis() has passed       *)
(* Horizon (Rebase): all stamps move with it, and a stamp older than the    *)
(* horizon is held at the origin, where it still reads as "at least Horizon *)
(* ago".  No comparison of the code can tell the difference.                *)
(***************************************************************************)
EXTENDS Integers, Sequences, FiniteSets, TLC

VARIABLES
    pc,               \* "setup", "wait" (setup's busy-wait), "ready", "loop"
    now,              \* the last value millis() returned
    state,            \* int state
    keyState,         \* debounced key state
    lastKeyState,     \* previous raw reading of the pin
    lastDebounceTime, \* time of the last raw toggle
    keyDownTime,      \* millis() at solid key down
    keyUpTime,        \* millis() at solid key up
    base,             \* duration of the base unit in ms
    Decode,           \* 1: decode to characters, 0: dump dots and dashes
    symbolBuffer,     \* char symbolBuffer[6], indexed 0..5
    symbol,           \* char *symbol, as an offset into symbolBuffer (0..6)
    out,              \* keystrokes sent by the last step, in order
    log,              \* history: every keystroke sent so far (scenario runs)
    script,           \* scenario runs: the raw key signal still to come
    raw               \* history: the raw samples as they were taken (debounce runs)

vars == <<pc, now, state, keyState, lastKeyState, lastDebounceTime, keyDownTime,
          keyUpTime, base, Decode, symbolBuffer, symbol, out, log, script, raw>>

progVars == <<pc, now, state, keyState, lastKeyState, lastDebounceTime,
              keyDownTime, keyUpTime, base, Decode, symbolBuffer, symbol, out>>

(***************************************************************************)
(* Program constants.                                                       *)
(***************************************************************************)
LOW == 0
HIGH == 1
KEY_DOWN == LOW
KEY_UP == HIGH

STATE_UNDEFINED == -1
STATE_IDLING == 0
STATE_DOWN == 1
STATE_LONGDOWN == 2
STATE_RELEASE == 3

debounceDelay == 50
InitialBase == 100
dit == 1
characterspace == 3
wordspace == 7
BufSize == 6
BootPollDelay == 50

\* The characters stored in symbolBuffer, by their ASCII codes.
NUL == 0
DOT == 46
DASH == 45

(***************************************************************************)
(* unsigned long arithmetic (32 bits on the AVR).  A value is held as the   *)
(* pair <<high 16 bits, low 16 bits>>, so that products wrap at 2^32 as the *)
(* hardware does.                                                           *)
(***************************************************************************)
Half == 2^16

U32(n) == <<(n \div Half) % Half, n % Half>>

\* a * k mod 2^32, for a multiplier k < 2^15
MulU32(a, k) ==
    LET p == a[2] * k
    IN  <<(a[1] * k + (p \div Half)) % Half, p % Half>>

\* a / 2
HalveU32(a) == <<a[1] \div 2, (a[1] % 2) * (Half \div 2) + (a[2] \div 2)>>

LeqU32(a, b) == a[1] < b[1] \/ (a[1] = b[1] /\ a[2] <= b[2])

GeqU32(a, b) == LeqU32(b, a)

\* millis() - since: the model's clock never passes since backwards
Elapsed(t, since) == U32(t - since)

(***************************************************************************)
(* Keystrokes: DigiKeyboard.sendKeyStroke(key [, modifiers]).               *)
(***************************************************************************)
sendKeyStroke(key, mod) == <<[key |-> key, mod |-> mod]>>

Shifted(key) == sendKeyStroke(key, "MOD_SHIFT_LEFT")

Plain(key) == sendKeyStroke(key, "0")

NoKeyStroke == <<>>

EmptyBuffer == [i \in 0..(BufSize - 1) |-> NUL]

(***************************************************************************)
(* decodeSymbol(): the decode tree, branch for branch.  b is symbolBuffer;  *)
(* oob is the byte found at symbolBuffer[6], one past the end of the array, *)
(* which four branches read.  The result is the sequence of keystrokes the  *)
(* call sends (none on a decode error).                                     *)
(***************************************************************************)
SB(b, oob, i) == IF i < BufSize THEN b[i] ELSE oob

\* lines 199-352: symbolBuffer[0] == '.'
decodeDotBranch(b, oob) ==
    LET c(i) == SB(b, oob, i)
    IN
    IF c(1) = NUL THEN Shifted("KEY_E")
    ELSE IF c(1) = DOT THEN
        IF c(2) = NUL THEN Shifted("KEY_I")
        ELSE IF c(2) = DOT THEN
            IF c(3) = NUL THEN Shifted("KEY_S")
            ELSE IF c(3) = DOT THEN
                IF c(4) = NUL THEN Shifted("KEY_H")
                ELSE IF c(4) = DOT THEN
                    IF c(5) = NUL THEN Plain("KEY_5") ELSE NoKeyStroke
                ELSE IF c(4) = DASH THEN
                    IF c(5) = NUL THEN Plain("KEY_4") ELSE NoKeyStroke
                ELSE NoKeyStroke
            ELSE IF c(3) = DASH THEN
                IF c(4) = NUL THEN Shifted("KEY_V")
                ELSE IF c(4) = DOT THEN NoKeyStroke
                ELSE IF c(4) = DASH THEN
                    IF c(5) = NUL THEN Plain("KEY_3") ELSE NoKeyStroke
                ELSE NoKeyStroke
            ELSE NoKeyStroke
        ELSE IF c(2) = DASH THEN
            IF c(3) = NUL THEN Shifted("KEY_U")
            ELSE IF c(3) = DOT THEN
                IF c(4) = NUL THEN Shifted("KEY_F") ELSE NoKeyStroke
            ELSE IF c(3) = DASH THEN
                IF c(4) = NUL THEN NoKeyStroke   \* KEY_UE is commented out
                ELSE IF c(4) = DASH THEN
                    IF c(5) = NUL THEN Plain("KEY_2") ELSE NoKeyStroke
                ELSE IF c(4) = DOT THEN
                    IF c(5) = DOT THEN
                        IF c(6) = NUL THEN Shifted("KEY_SLASH") ELSE NoKeyStroke
                    ELSE IF c(5) = DASH THEN
                        IF c(6) = NUL THEN Shifted("KEY_MINUS") ELSE NoKeyStroke
                    ELSE NoKeyStroke
                ELSE NoKeyStroke
            ELSE NoKeyStroke
        ELSE NoKeyStroke
    ELSE IF c(1) = DASH THEN
        IF c(2) = NUL THEN Shifted("KEY_A")
        ELSE IF c(2) = DOT THEN
            IF c(3) = NUL THEN Shifted("KEY_R")
            ELSE IF c(3) = DOT THEN
                IF c(4) = NUL THEN Shifted("KEY_L") ELSE NoKeyStroke
            ELSE IF c(3) = DASH THEN
                IF c(4) = NUL THEN NoKeyStroke   \* KEY_AE is commented out
                ELSE IF c(4) = DOT THEN
                    IF c(5) = NUL THEN Shifted("KEY_EQUAL")
                    ELSE IF c(5) = DASH THEN
                        IF c(6) = NUL THEN Plain("KEY_DOT") ELSE NoKeyStroke
                    ELSE NoKeyStroke
                ELSE IF c(4) = DOT THEN           \* lines 313-318, never taken
                    IF c(6) = NUL THEN Shifted("KEY_EQUAL") ELSE NoKeyStroke
                ELSE NoKeyStroke
            ELSE NoKeyStroke
        ELSE IF c(2) = DASH THEN
            IF c(3) = DOT THEN
                IF c(4) = NUL THEN Shifted("KEY_P") ELSE NoKeyStroke
            ELSE IF c(3) = DASH THEN
                IF c(4) = NUL THEN Shifted("KEY_J")
                ELSE IF c(4) = DASH THEN
                    IF c(5) = NUL THEN Plain("KEY_1") ELSE NoKeyStroke
                ELSE NoKeyStroke
            ELSE Shifted("KEY_W")
        ELSE NoKeyStroke
    ELSE NoKeyStroke

\* lines 353-490: symbolBuffer[0] == '-'
decodeDashBranch(b, oob) ==
    LET c(i) == SB(b, oob, i)
    IN
    IF c(1) = NUL THEN Shifted("KEY_T")
    ELSE IF c(1) = DOT THEN
        IF c(2) = DOT THEN
            IF c(3) = DOT THEN
                IF c(4) = DOT THEN
                    IF c(5) = NUL THEN Plain("KEY_6")
                    ELSE IF c(5) = DASH THEN Plain("KEY_KPAD_MINUS")
                    ELSE NoKeyStroke
                ELSE IF c(4) = DASH THEN
                    IF c(5) = NUL THEN Plain("KEY_EQUAL") ELSE NoKeyStroke
                ELSE Shifted("KEY_B")
            ELSE IF c(3) = DASH THEN
                IF c(4) = NUL THEN Shifted("KEY_X")
                ELSE IF c(4) = DOT THEN
                    IF c(5) = NUL THEN Plain("KEY_SLASH") ELSE NoKeyStroke
                ELSE IF c(4) = DASH THEN
                    IF c(5) = NUL THEN Shifted("KEY_X") ELSE NoKeyStroke
                ELSE NoKeyStroke
            ELSE Shifted("KEY_D")
        ELSE IF c(2) = DASH THEN
            IF c(3) = DOT THEN
                IF c(4) = NUL THEN Shifted("KEY_C") ELSE NoKeyStroke
            ELSE IF c(3) = DASH THEN
                IF c(4) = NUL THEN Shifted("KEY_Y") ELSE NoKeyStroke
            ELSE IF c(3) = NUL THEN Shifted("KEY_K")
            ELSE NoKeyStroke
        ELSE IF c(2) = NUL THEN Shifted("KEY_N")
        ELSE NoKeyStroke
    ELSE IF c(1) = DASH THEN
        IF c(2) = DOT THEN
            IF c(3) = DOT THEN
                IF c(4) = DOT THEN
                    IF c(5) = NUL THEN Plain("KEY_7") ELSE NoKeyStroke
                ELSE IF c(4) = DASH THEN
                    IF c(5) = DASH THEN
                        IF c(6) = NUL THEN Plain("KEY_COMMA") ELSE NoKeyStroke
                    ELSE NoKeyStroke
                ELSE IF c(4) = NUL THEN Shifted("KEY_Z")
                ELSE NoKeyStroke
            ELSE IF c(3) = DASH THEN
                IF c(4) = NUL THEN Shifted("KEY_Q") ELSE NoKeyStroke
            ELSE Shifted("KEY_G")
        ELSE IF c(2) = DASH THEN
            IF c(3) = DOT THEN
                IF c(4) = DOT THEN
                    IF c(5) = NUL THEN Plain("KEY_8") ELSE NoKeyStroke
                ELSE IF c(4) = DASH THEN
                    IF c(5) = NUL THEN Shifted("KEY_SEMICOLON") ELSE NoKeyStroke
                ELSE NoKeyStroke
            ELSE IF c(3) = DASH THEN
                IF c(4) = DASH THEN
                    IF c(5) = NUL THEN Plain("KEY_0") ELSE NoKeyStroke
                ELSE IF c(4) = DOT THEN
                    IF c(5) = NUL THEN Plain("KEY_9") ELSE NoKeyStroke
                ELSE NoKeyStroke
            ELSE Shifted("KEY_O")
        ELSE Shifted("KEY_M")
    ELSE NoKeyStroke

\* the two top branches taken the wrong way round
decodeSymbolSwapped(b, oob) ==
    IF b[0] = DOT THEN decodeDashBranch(b, oob)
    ELSE IF b[0] = DASH THEN decodeDotBranch(b, oob)
    ELSE NoKeyStroke

decodeSymbol(b, oob) ==
    IF b[0] = DOT THEN decodeDotBranch(b, oob)
    ELSE IF b[0] = DASH THEN decodeDashBranch(b, oob)
    ELSE NoKeyStroke

(***************************************************************************)
(* Timing thresholds, as the handlers compute them.                         *)
(***************************************************************************)
\* one unit for one and a half
ditThresholdOneUnit(b) == MulU32(U32(b), dit)

\* DOWN(): ditInterval = base*dit; the dit/dah limit is 3*ditInterval/2
ditThreshold(b) == HalveU32(MulU32(MulU32(U32(b), dit), 3))

\* < for <=
classifyStrict(d, b) == IF ~LeqU32(ditThreshold(b), d) THEN DOT ELSE DASH

\* DOWN(): the symbol stored for a key-down interval d (an unsigned long)
classify(d, b) == IF LeqU32(d, ditThreshold(b)) THEN DOT ELSE DASH

\* the character gap taken for the word gap
characterGapAsWordGap(b) == MulU32(U32(b), wordspace)

\* RELEASE(): base*characterspace
characterGap(b) == MulU32(U32(b), characterspace)

\* the word gap taken for the character gap
wordGapAsCharacterGap(b) == MulU32(U32(b), characterspace)

\* DOWN() and RELEASE(): base*wordspace
wordGap(b) == MulU32(U32(b), wordspace)

\* the raw keystroke DOWN() sends for a stored symbol when not decoding
rawKeyStroke(sym) == IF sym = DOT THEN Plain("KEY_DOT") ELSE Plain("KEY_KPAD_MINUS")

\* no capacity test at all
hasSpaceAlways(sym) == TRUE

\* DOWN(): symbol != &symbolBuffer[sizeof(symbolBuffer)]
hasSpace(sym) == sym # BufSize

\* no test for pending symbols
hasSymbolsAlways(sym) == TRUE

\* RELEASE(): symbol != &symbolBuffer[0]
hasSymbols(sym) == sym # 0

\* one space whatever the mode
wordSeparatorSingle(dec) == Plain("KEY_SPACE")

\* RELEASE(): the word separator
wordSeparator(dec) ==
    IF dec # 0
      THEN Plain("KEY_SPACE")
      ELSE Plain("KEY_SPACE") \o Plain("KEY_SPACE") \o Plain("KEY_SPACE")

(***************************************************************************)
(* The state handlers.  A handler is called by loop() after the debounce:   *)
(* t is millis(), ks and dec are keyState and Decode as loop() has just     *)
(* left them.  It reads the other globals as they stand and returns the     *)
(* globals it may write, with the keystrokes it sends in out.               *)
(***************************************************************************)
globals ==
    [state |-> state, keyDownTime |-> keyDownTime, keyUpTime |-> keyUpTime,
     symbolBuffer |-> symbolBuffer, symbol |-> symbol, out |-> NoKeyStroke]

\* the buffer left as it is
keepSymbolBuffer(g) == g

\* clearSymbolBuffer(): memset to 0 and symbol = &symbolBuffer[0]
clearSymbolBuffer(g) == [g EXCEPT !.symbolBuffer = EmptyBuffer, !.symbol = 0]

IDLING(t, ks) ==
    IF ks = KEY_DOWN
      THEN [globals EXCEPT !.keyDownTime = t, !.state = STATE_DOWN]
      ELSE globals

DOWN(t, ks, dec) ==
    LET keyDownInterval == Elapsed(t, keyDownTime)
        sym == classify(keyDownInterval, base)
    IN
    IF ks = KEY_UP
      THEN IF hasSpace(symbol)
             THEN [globals EXCEPT
                     !.keyUpTime = t,
                     !.symbolBuffer = [symbolBuffer EXCEPT ![symbol] = sym],
                     !.symbol = symbol + 1,
                     !.out = IF dec = 0 THEN rawKeyStroke(sym) ELSE NoKeyStroke,
                     !.state = STATE_RELEASE]
             ELSE [globals EXCEPT !.keyUpTime = t, !.state = STATE_RELEASE]
      ELSE IF GeqU32(keyDownInterval, wordGap(base))
             THEN [globals EXCEPT !.out = Plain("KEY_BACKSP"),
                                  !.state = STATE_LONGDOWN]
             ELSE globals

\* the long press never let go of
LONGDOWNStuck(ks) == globals

\* the long press released into RELEASE
LONGDOWNIntoRelease(ks) ==
    IF ks = KEY_UP
      THEN [globals EXCEPT !.state = STATE_RELEASE]
      ELSE globals

LONGDOWN(ks) ==
    IF ks = KEY_UP
      THEN [globals EXCEPT !.state = STATE_IDLING]
      ELSE globals

\* the word gap tested before the character gap
RELEASEWordGapFirst(t, ks, dec, oob) ==
    LET keyUpInterval == Elapsed(t, keyUpTime)
    IN
    IF ks = KEY_DOWN
      THEN [globals EXCEPT !.keyDownTime = t, !.state = STATE_DOWN]
      ELSE IF GeqU32(keyUpInterval, wordGap(base))
             THEN [globals EXCEPT !.out = wordSeparator(dec),
                                  !.state = STATE_IDLING]
             ELSE IF GeqU32(keyUpInterval, characterGap(base)) /\ hasSymbols(symbol)
                    THEN clearSymbolBuffer(
                           [globals EXCEPT
                              !.out = IF dec # 0
                                        THEN decodeSymbol(symbolBuffer, oob)
                                        ELSE Plain("KEY_SPACE")])
                    ELSE globals

RELEASE(t, ks, dec, oob) ==
    LET keyUpInterval == Elapsed(t, keyUpTime)
    IN
    IF ks = KEY_DOWN
      THEN [globals EXCEPT !.keyDownTime = t, !.state = STATE_DOWN]
      ELSE IF GeqU32(keyUpInterval, characterGap(base)) /\ hasSymbols(symbol)
             THEN clearSymbolBuffer(
                    [globals EXCEPT
                       !.out = IF dec # 0
                                 THEN decodeSymbol(symbolBuffer, oob)
                                 ELSE Plain("KEY_SPACE")])
             ELSE IF GeqU32(keyUpInterval, wordGap(base))
                    THEN [globals EXCEPT !.out = wordSeparator(dec),
                                         !.state = STATE_IDLING]
                    ELSE globals

\* stateFuncs[state]()
stateFuncs(t, ks, dec, oob) ==
    CASE state = STATE_IDLING   -> IDLING(t, ks)
      [] state = STATE_DOWN     -> DOWN(t, ks, dec)
      [] state = STATE_LONGDOWN -> LONGDOWN(ks)
      [] state = STATE_RELEASE  -> RELEASE(t, ks, dec, oob)

(***************************************************************************)
(* The clock's origin (see the head of the module).                         *)
(***************************************************************************)
Horizon == wordspace * InitialBase

\* how far the origin moves when millis() reads t
OriginShift(t) == IF t > Horizon THEN t - Horizon ELSE 0

\* a stamp x, seen from the origin in force after a step that read millis() = t
Rebase(x, t) == IF x > OriginShift(t) THEN x - OriginShift(t) ELSE 0

(***************************************************************************)
(* loop(): one call, dt ms after the previous step.  pin is the raw sample  *)
(* digitalRead(KEY_PIN), scrollLock the host's Scroll Lock LED, oob the     *)
(* byte behind symbolBuffer.                                                *)
(***************************************************************************)
\* lines 625-628: a raw toggle resets the debounce timer
debounceTimer(pin, t) == IF pin # lastKeyState THEN t ELSE lastDebounceTime

\* a reading taken as settled as soon as the window has passed
acceptedAtWindow(pin, t) == (t - debounceTimer(pin, t)) >= debounceDelay /\ pin # keyState

\* lines 630 and 635: the debounced state changes
accepted(pin, t) == (t - debounceTimer(pin, t)) > debounceDelay /\ pin # keyState

\* decoding while Scroll Lock is on
decodeFromLEDsInverted(scrollLock) == IF scrollLock THEN 1 ELSE 0

\* Decode = (!(DigiKeyboard.getLEDs() & SCROLL_LOCK))
decodeFromLEDs(scrollLock) == IF scrollLock THEN 0 ELSE 1

loop(dt, pin, scrollLock, oob) ==
    LET t == now + dt
        ks == IF accepted(pin, t) THEN pin ELSE keyState
        dec == IF accepted(pin, t) THEN decodeFromLEDs(scrollLock) ELSE Decode
        g == stateFuncs(t, ks, dec, oob)
    IN
    /\ pc = "loop"
    /\ now' = Rebase(t, t)
    /\ lastDebounceTime' = Rebase(debounceTimer(pin, t), t)
    /\ keyState' = ks
    /\ Decode' = dec
    /\ lastKeyState' = pin
    /\ state' = g.state
    /\ keyDownTime' = Rebase(g.keyDownTime, t)
    /\ keyUpTime' = Rebase(g.keyUpTime, t)
    /\ symbolBuffer' = g.symbolBuffer
    /\ symbol' = g.symbol
    /\ out' = g.out
    /\ UNCHANGED <<pc, base>>

(***************************************************************************)
(* setup(), in three steps: the boot-time sample of the key, the busy-wait  *)
(* for its release, and the ready signal (three delays of base*dit).        *)
(***************************************************************************)
\* the mode left as it is
bootDecodeKept(pin) == Decode

\* lines 593-595: the key down at start-up selects dots-and-dashes mode
bootDecode(pin) == IF pin = KEY_DOWN THEN 0 ELSE Decode

setupBegin(pin) ==
    /\ pc = "setup"
    /\ symbolBuffer' = clearSymbolBuffer(globals).symbolBuffer
    /\ symbol' = clearSymbolBuffer(globals).symbol
    /\ Decode' = bootDecode(pin)
    /\ pc' = IF pin = KEY_DOWN THEN "wait" ELSE "ready"
    /\ out' = NoKeyStroke
    /\ UNCHANGED <<now, state, keyState, lastKeyState, lastDebounceTime,
                   keyDownTime, keyUpTime, base>>

setupWait(pin) ==
    LET t == IF pin = KEY_DOWN THEN now + BootPollDelay ELSE now
    IN
    /\ pc = "wait"
    /\ pc' = IF pin = KEY_DOWN THEN "wait" ELSE "ready"
    /\ now' = Rebase(t, t)
    /\ lastDebounceTime' = Rebase(lastDebounceTime, t)
    /\ keyDownTime' = Rebase(keyDownTime, t)
    /\ keyUpTime' = Rebase(keyUpTime, t)
    /\ out' = NoKeyStroke
    /\ UNCHANGED <<state, keyState, lastKeyState, base, Decode, symbolBuffer, symbol>>

setupEnd ==
    LET t == now + 3 * (base * dit)
    IN
    /\ pc = "ready"
    /\ state' = STATE_IDLING
    /\ pc' = "loop"
    /\ now' = Rebase(t, t)
    /\ lastDebounceTime' = Rebase(lastDebounceTime, t)
    /\ keyDownTime' = Rebase(keyDownTime, t)
    /\ keyUpTime' = Rebase(keyUpTime, t)
    /\ out' = NoKeyStroke
    /\ UNCHANGED <<keyState, lastKeyState, base, Decode, symbolBuffer, symbol>>

(***************************************************************************)
(* The program under an arbitrary environment: any raw samples (noise       *)
(* included), any Scroll Lock setting, any byte behind the buffer, loop()   *)
(* called at any of the tick spacings, for ever.                            *)
(***************************************************************************)
TickSteps == {50, 100}
Pins == {LOW, HIGH}
OOBBytes == {NUL, DOT, DASH}

\* getLEDs() is read only on an accepted transition
LEDChoices(dt, pin) == IF accepted(pin, now + dt) THEN BOOLEAN ELSE {FALSE}

\* symbolBuffer[6] is read only by a decode of a full buffer
OOBChoices == IF state = STATE_RELEASE /\ symbol = BufSize THEN OOBBytes ELSE {NUL}

\* no raw sample recorded
RawUnobserved == <<>>

\* the globals as the C runtime leaves them before setup() (lines 51-79);
\* symbol is a null pointer there, which nothing reads before setup() sets it
InitProgram ==
    /\ pc = "setup"
    /\ now = 0
    /\ state = STATE_UNDEFINED
    /\ keyState = 0
    /\ lastKeyState = HIGH
    /\ lastDebounceTime = 0
    /\ keyDownTime = 0
    /\ keyUpTime = 0
    /\ base = InitialBase
    /\ Decode = 1
    /\ symbolBuffer = EmptyBuffer
    /\ symbol = 0
    /\ out = NoKeyStroke

Init ==
    /\ InitProgram
    /\ log = <<>>
    /\ script = <<>>
    /\ raw = RawUnobserved

Boot ==
    \E pin \in Pins :
        /\ setupBegin(pin)
        /\ UNCHANGED <<log, script, raw>>

BootWait ==
    \E pin \in Pins :
        /\ setupWait(pin)
        /\ UNCHANGED <<log, script, raw>>

BootEnd ==
    /\ setupEnd
    /\ UNCHANGED <<log, script, raw>>

Tick ==
    \E dt \in TickSteps, pin \in Pins :
      \E scrollLock \in LEDChoices(dt, pin), oob \in OOBChoices :
        /\ loop(dt, pin, scrollLock, oob)
        /\ UNCHANGED <<log, script, raw>>

Next == Boot \/ BootWait \/ BootEnd \/ Tick

Spec == Init /\ [][Next]_vars

(***************************************************************************)
(* The reference: the international Morse table (ITU-R M.1677), each        *)
(* character with the keystroke that types it (letters with shift; the      *)
(* punctuation as the decode tree's own comments name it).                  *)
(***************************************************************************)
MorseLetters ==
    {
      [seq |-> <<DOT, DASH>>, stroke |-> Shifted("KEY_A")],
      [seq |-> <<DASH, DOT, DOT, DOT>>, stroke |-> Shifted("KEY_B")],
      [seq |-> <<DASH, DOT, DASH, DOT>>, stroke |-> Shifted("KEY_C")],
      [seq |-> <<DASH, DOT, DOT>>, stroke |-> Shifted("KEY_D")],
      [seq |-> <<DOT>>, stroke |-> Shifted("KEY_E")],
      [seq |-> <<DOT, DOT, DASH, DOT>>, stroke |-> Shifted("KEY_F")],
      [seq |-> <<DASH, DASH, DOT>>, stroke |-> Shifted("KEY_G")],
      [seq |-> <<DOT, DOT, DOT, DOT>>, stroke |-> Shifted("KEY_H")],
      [seq |-> <<DOT, DOT>>, stroke |-> Shifted("KEY_I")],
      [seq |-> <<DOT, DASH, DASH, DASH>>, stroke |-> Shifted("KEY_J")],
      [seq |-> <<DASH, DOT, DASH>>, stroke |-> Shifted("KEY_K")],
      [seq |-> <<DOT, DASH, DOT, DOT>>, stroke |-> Shifted("KEY_L")],
      [seq |-> <<DASH, DASH>>, stroke |-> Shifted("KEY_M")],
      [seq |-> <<DASH, DOT>>, stroke |-> Shifted("KEY_N")],
      [seq |-> <<DASH, DASH, DASH>>, stroke |-> Shifted("KEY_O")],
      [seq |-> <<DOT, DASH, DASH, DOT>>, stroke |-> Shifted("KEY_P")],
      [seq |-> <<DASH, DASH, DOT, DASH>>, stroke |-> Shifted("KEY_Q")],
      [seq |-> <<DOT, DASH, DOT>>, stroke |-> Shifted("KEY_R")],
      [seq |-> <<DOT, DOT, DOT>>, stroke |-> Shifted("KEY_S")],
      [seq |-> <<DASH>>, stroke |-> Shifted("KEY_T")],
      [seq |-> <<DOT, DOT, DASH>>, stroke |-> Shifted("KEY_U")],
      [seq |-> <<DOT, DOT, DOT, DASH>>, stroke |-> Shifted("KEY_V")],
      [seq |-> <<DOT, DASH, DASH>>, stroke |-> Shifted("KEY_W")],
      [seq |-> <<DASH, DOT, DOT, DASH>>, stroke |-> Shifted("KEY_X")],
      [seq |-> <<DASH, DOT, DASH, DASH>>, stroke |-> Shifted("KEY_Y")],
      [seq |-> <<DASH, DASH, DOT, DOT>>, stroke |-> Shifted("KEY_Z")]
    }

MorseDigits ==
    {
      [seq |-> <<DASH, DASH, DASH, DASH, DASH>>, stroke |-> Plain("KEY_0")],
      [seq |-> <<DOT, DASH, DASH, DASH, DASH>>, stroke |-> Plain("KEY_1")],
      [seq |-> <<DOT, DOT, DASH, DASH, DASH>>, stroke |-> Plain("KEY_2")],
      [seq |-> <<DOT, DOT, DOT, DASH, DASH>>, stroke |-> Plain("KEY_3")],
      [seq |-> <<DOT, DOT, DOT, DOT, DASH>>, stroke |-> Plain("KEY_4")],
      [seq |-> <<DOT, DOT, DOT, DOT, DOT>>, stroke |-> Plain("KEY_5")],
      [seq |-> <<DASH, DOT, DOT, DOT, DOT>>, stroke |-> Plain("KEY_6")],
      [seq |-> <<DASH, DASH, DOT, DOT, DOT>>, stroke |-> Plain("KEY_7")],
      [seq |-> <<DASH, DASH, DASH, DOT, DOT>>, stroke |-> Plain("KEY_8")],
      [seq |-> <<DASH, DASH, DASH, DASH, DOT>>, stroke |-> Plain("KEY_9")]
    }

\* ? _ + . - = / , :
MorsePunctuation ==
    {
      [seq |-> <<DOT, DOT, DASH, DASH, DOT, DOT>>, stroke |-> Shifted("KEY_SLASH")],
      [seq |-> <<DOT, DOT, DASH, DASH, DOT, DASH>>, stroke |-> Shifted("KEY_MINUS")],
      [seq |-> <<DOT, DASH, DOT, DASH, DOT>>, stroke |-> Shifted("KEY_EQUAL")],
      [seq |-> <<DOT, DASH, DOT, DASH, DOT, DASH>>, stroke |-> Plain("KEY_DOT")],
      [seq |-> <<DASH, DOT, DOT, DOT, DOT, DASH>>, stroke |-> Plain("KEY_KPAD_MINUS")],
      [seq |-> <<DASH, DOT, DOT, DOT, DASH>>, stroke |-> Plain("KEY_EQUAL")],
      [seq |-> <<DASH, DOT, DOT, DASH, DOT>>, stroke |-> Plain("KEY_SLASH")],
      [seq |-> <<DASH, DASH, DOT, DOT, DASH, DASH>>, stroke |-> Plain("KEY_COMMA")],
      [seq |-> <<DASH, DASH, DASH, DOT, DOT, DOT>>, stroke |-> Shifted("KEY_SEMICOLON")]
    }

\* punctuation of the table for which the tree has no keystroke: ' ! ( ) & ; " @
MorseOtherSequences ==
    {
      <<DOT, DASH, DASH, DASH, DASH, DOT>>,
      <<DASH, DOT, DASH, DOT, DASH, DASH>>,
      <<DASH, DOT, DASH, DASH, DOT>>,
      <<DASH, DOT, DASH, DASH, DOT, DASH>>,
      <<DOT, DASH, DOT, DOT, DOT>>,
      <<DASH, DOT, DASH, DOT, DASH, DOT>>,
      <<DOT, DASH, DOT, DOT, DASH, DOT>>,
      <<DOT, DASH, DASH, DOT, DASH, DOT>>
    }

MorseTable == MorseLetters \cup MorseDigits \cup MorsePunctuation

MorseSequences == {e.seq : e \in MorseTable} \cup MorseOtherSequences

\* a sequence of symbols as symbolBuffer holds it: from index 0, zero-padded
Padded(q) == [i \in 0..(BufSize - 1) |-> IF i < Len(q) THEN q[i + 1] ELSE NUL]

\* the symbols symbolBuffer holds, as a sequence
Accumulated == [i \in 1..symbol |-> symbolBuffer[i - 1]]

\* this step is RELEASE()'s character-gap branch: it clears a non-empty buffer
CharacterGapFires == pc = "loop" /\ symbol # 0 /\ symbol' = 0

\* this step is a character-gap branch that decodes
DecodeFires == CharacterGapFires /\ Decode' # 0

(***************************************************************************)
(* The decode tree against the table.                                       *)
(***************************************************************************)
\* C2: whenever the character gap decodes a buffer that holds the Morse
\* sequence of a letter A-Z or a digit 0-9, zero-padded, the step sends exactly
\* one keystroke: that letter's key with the shift modifier, or that digit's key.
C2_LettersAndDigitsDecode ==
    [][DecodeFires =>
         \A e \in MorseLetters \cup MorseDigits :
             symbolBuffer = Padded(e.seq) => out' = e.stroke]_vars

\* a state right after the decode of "-----" sent the digit 0
C2_Witness ==
    /\ state = STATE_RELEASE
    /\ symbol = 0
    /\ Decode # 0
    /\ out = Plain("KEY_0")

\* C3: whenever the character gap decodes a sequence that is no sequence of the
\* international table, the step sends no keystroke; and a keystroke of the
\* table is sent for no sequence but that character's own.
C3_OnlyTableSequencesDecode ==
    [][DecodeFires =>
         /\ Accumulated \notin MorseSequences => out' = NoKeyStroke
         /\ \A e \in MorseTable : out' = e.stroke => Accumulated = e.seq]_vars

\* C4: whenever the character gap decodes a buffer that holds the Morse
\* sequence of one of ? _ + . - = / , : the step sends that character's
\* keystroke.
C4_PunctuationDecodes ==
    [][DecodeFires =>
         \A e \in MorsePunctuation :
             symbolBuffer = Padded(e.seq) => out' = e.stroke]_vars

(***************************************************************************)
(* The state machine under an arbitrary environment (Spec).  After a step,  *)
(* now' - keyDownTime' and now' - keyUpTime' are the intervals the handler  *)
(* of that step measured (held at Horizon = 7*base when longer), unless the *)
(* step set the stamp.                                                      *)
(***************************************************************************)
\* C6: a step of DOWN() that finds the key still down at least 7*base after
\* keyDownTime sends exactly one Backspace and enters LONGDOWN (and sends
\* nothing and stays in DOWN when the time is shorter); every step in LONGDOWN
\* sends nothing, whatever the clock reads, and leaves LONGDOWN exactly when
\* the key is up, for IDLING; and from the Backspace to IDLING the symbol
\* buffer does not change.
C6_LongPress ==
    [][/\ (state = STATE_DOWN /\ keyState' = KEY_DOWN) =>
            IF now' - keyDownTime' >= 7 * base
              THEN /\ state' = STATE_LONGDOWN
                   /\ out' = Plain("KEY_BACKSP")
                   /\ symbol' = symbol
                   /\ symbolBuffer' = symbolBuffer
              ELSE state' = STATE_DOWN /\ out' = NoKeyStroke
       /\ (pc = "loop" /\ state' = STATE_LONGDOWN) => state \in {STATE_DOWN, STATE_LONGDOWN}
       /\ state = STATE_LONGDOWN =>
            /\ out' = NoKeyStroke
            /\ symbol' = symbol
            /\ symbolBuffer' = symbolBuffer
            /\ state' = IF keyState' = KEY_UP THEN STATE_IDLING ELSE STATE_LONGDOWN]_vars

\* the long press has been released: IDLING entered from LONGDOWN, with the
\* symbols keyed before it still in the buffer
C6_Witness ==
    /\ state = STATE_IDLING
    /\ keyState = KEY_UP
    /\ now - keyDownTime >= 7 * base
    /\ symbol = 2
    /\ out = NoKeyStroke

\* C9: in RELEASE with the buffer empty (the character gap has fired), a step
\* that finds the key still up less than 7*base after keyUpTime sends nothing
\* and changes neither the state nor the buffer; and RELEASE holds an empty
\* buffer only after the character gap has fired.
C9_GapTimeoutIdempotent ==
    [][/\ (state = STATE_RELEASE /\ symbol = 0 /\ keyState' = KEY_UP
             /\ now' - keyUpTime' < 7 * base) =>
            /\ out' = NoKeyStroke
            /\ state' = STATE_RELEASE
            /\ symbol' = 0
            /\ symbolBuffer' = symbolBuffer
       /\ (state' = STATE_RELEASE /\ symbol' = 0) =>
            state = STATE_RELEASE /\ now' - keyUpTime' >= 3 * base]_vars

\* RELEASE, buffer empty, a tick later than the one that fired the gap and
\* still short of the word gap
C9_Witness ==
    /\ state = STATE_RELEASE
    /\ symbol = 0
    /\ keyState = KEY_UP
    /\ now - keyUpTime >= 4 * base
    /\ now - keyUpTime < 7 * base
    /\ out = NoKeyStroke

\* the buffer is symbol dots and dashes followed by zeros
BufferWellFormed ==
    /\ symbol \in 0..BufSize
    /\ \A i \in 0..(BufSize - 1) :
           IF i < symbol THEN symbolBuffer[i] \in {DOT, DASH} ELSE symbolBuffer[i] = NUL

\* C10: the buffer never holds more than 6 symbols; a release seen by DOWN()
\* with 6 symbols stored leaves the buffer as it is, sends nothing and enters
\* RELEASE; a full buffer changes only by being cleared at the character gap,
\* which decodes the six symbols it holds; six dots decode to no keystroke.
C10_BufferOverflow ==
    /\ []BufferWellFormed
    /\ [][/\ (state = STATE_DOWN /\ symbol = BufSize /\ keyState' = KEY_UP) =>
               /\ symbolBuffer' = symbolBuffer
               /\ symbol' = symbol
               /\ out' = NoKeyStroke
               /\ state' = STATE_RELEASE
          /\ (pc = "loop" /\ symbol = BufSize) =>
               \/ symbolBuffer' = symbolBuffer /\ symbol' = symbol
               \/ /\ CharacterGapFires
                  /\ state = STATE_RELEASE
                  /\ symbolBuffer' = EmptyBuffer
                  /\ DecodeFires =>
                       \E oob \in OOBBytes : out' = decodeSymbol(symbolBuffer, oob)
          /\ (DecodeFires /\ symbolBuffer = [i \in 0..(BufSize - 1) |-> DOT]) =>
               out' = NoKeyStroke]_vars

\* a seventh dot has just been dropped: in raw mode a stored symbol is sent at
\* once, so a release that sends nothing found the buffer full
C10_Witness ==
    /\ state = STATE_RELEASE
    /\ symbol = BufSize
    /\ symbolBuffer = [i \in 0..(BufSize - 1) |-> DOT]
    /\ keyUpTime = now
    /\ Decode = 0
    /\ out = NoKeyStroke

(***************************************************************************)
(* Scenario runs: the key is up at boot, loop() is called every millisecond *)
(* and the raw key signal follows a script, a sequence of <<level, ms>>.    *)
(* A raw level held for n ms gives a debounced level of the same length,    *)
(* debounceDelay + 1 ms later.  log records every keystroke sent.           *)
(***************************************************************************)
ScenarioBoot ==
    /\ setupBegin(KEY_UP)
    /\ UNCHANGED <<log, script, raw>>

ScenarioBootEnd ==
    /\ setupEnd
    /\ UNCHANGED <<log, script, raw>>

ScenarioTick(scrollLock) ==
    /\ script # <<>>
    /\ \E oob \in OOBChoices : loop(1, Head(script)[1], scrollLock, oob)
    /\ log' = log \o out'
    /\ UNCHANGED raw
    /\ script' = IF Head(script)[2] = 1
                   THEN Tail(script)
                   ELSE <<<<Head(script)[1], Head(script)[2] - 1>>>> \o Tail(script)

\* scenario 1: 100 ms down, 150 ms up, 100 ms down, 400 ms up; Scroll Lock off
Scenario1Script ==
    <<<<KEY_UP, 200>>, <<KEY_DOWN, 100>>, <<KEY_UP, 150>>, <<KEY_DOWN, 100>>,
      <<KEY_UP, debounceDelay + 1 + 400 + 1>>>>

InitScenario1 ==
    /\ InitProgram
    /\ log = <<>>
    /\ script = Scenario1Script
    /\ raw = RawUnobserved

Scenario1Tick == ScenarioTick(FALSE)

NextScenario1 == ScenarioBoot \/ ScenarioBootEnd \/ Scenario1Tick

SpecScenario1 == InitScenario1 /\ [][NextScenario1]_vars

\* scenario 3: 120 ms down, then 800 ms up; Scroll Lock on (decoding disabled)
Scenario3Script ==
    <<<<KEY_UP, 200>>, <<KEY_DOWN, 120>>, <<KEY_UP, debounceDelay + 1 + 800 + 1>>>>

InitScenario3 ==
    /\ InitProgram
    /\ log = <<>>
    /\ script = Scenario3Script
    /\ raw = RawUnobserved

Scenario3Tick == ScenarioTick(TRUE)

NextScenario3 == ScenarioBoot \/ ScenarioBootEnd \/ Scenario3Tick

SpecScenario3 == InitScenario3 /\ [][NextScenario3]_vars

\* this state is the one DOWN() leaves when it has just seen the release
JustReleased == state = STATE_RELEASE /\ keyUpTime = now

\* this state is the one IDLING() or RELEASE() leaves when it has just seen the press
JustPressed == state = STATE_DOWN /\ keyDownTime = now

\* C5: in scenario 1 the debounced key is down 100 ms, up 150 ms, down 100 ms
\* and then up; the buffer only ever holds dots, two at most; the only keystroke
\* of the whole run is the letter I (KEY_I with shift), sent once, and the run
\* ends with it sent.
C5_Scenario1 ==
    /\ JustReleased => now - keyDownTime = 100
    /\ (JustPressed /\ symbol = 1) => now - keyUpTime = 150
    /\ symbol <= 2
    /\ \A i \in 0..(BufSize - 1) : symbolBuffer[i] = IF i < symbol THEN DOT ELSE NUL
    /\ log \in {<<>>, Shifted("KEY_I")}
    /\ log # <<>> => symbol = 0
    /\ script = <<>> => log = Shifted("KEY_I")

\* the end of scenario 1: 400 ms after the second release, I sent
C5_Witness ==
    /\ script = <<>>
    /\ state = STATE_RELEASE
    /\ now - keyUpTime = 400
    /\ log = Shifted("KEY_I")

\* C7 as stated: in scenario 3 the step that sees the release of the 120 ms
\* press sends the raw symbol Dash.
C7_RawDashOnRelease ==
    JustReleased =>
        /\ now - keyDownTime = 120
        /\ Decode = 0
        /\ out = Plain("KEY_KPAD_MINUS")
        /\ log = out

\* C7, amended: in scenario 3 the step that sees the release of the 120 ms
\* press (120 <= 150 = 3*base*dit/2) sends the raw symbol Dot, at once: it is
\* the first keystroke of the run and is sent by the releasing step itself.
C7_RawDotOnRelease ==
    /\ JustReleased =>
        /\ now - keyDownTime = 120
        /\ Decode = 0
        /\ symbol = 1
        /\ symbolBuffer[0] = DOT
        /\ out = Plain("KEY_DOT")
        /\ log = out
    /\ (log = <<>> /\ pc = "loop") => state \in {STATE_IDLING, STATE_DOWN}

\* the releasing step of scenario 3
C7_Witness ==
    /\ JustReleased
    /\ Decode = 0
    /\ out = Plain("KEY_DOT")

\* the Space keystrokes in a sequence of keystrokes
Spaces(q) == Cardinality({i \in 1..Len(q) : <<q[i]>> = Plain("KEY_SPACE")})

\* C8 as stated: over the 800 ms gap of scenario 3 exactly one Space is sent.
C8_OneSpace ==
    /\ Spaces(log) <= 1
    /\ script = <<>> => Spaces(log) = 1

\* C8, amended: over the 800 ms gap of scenario 3 exactly four Spaces are sent
\* and nothing else: one when the character gap (300 ms) fires and three when
\* the word gap (700 ms) fires; no decoded character is sent.
C8_FourSpaces ==
    LET whole == Plain("KEY_DOT") \o Plain("KEY_SPACE") \o Plain("KEY_SPACE")
                   \o Plain("KEY_SPACE") \o Plain("KEY_SPACE")
    IN
    /\ Len(log) <= Len(whole) /\ log = SubSeq(whole, 1, Len(log))
    /\ (state = STATE_RELEASE /\ now - keyUpTime < 3 * base) => Spaces(log) = 0
    /\ (state = STATE_RELEASE /\ now - keyUpTime >= 3 * base) => Spaces(log) = 1
    /\ (state = STATE_IDLING /\ log # <<>>) => Spaces(log) = 4
    /\ script = <<>> => log = whole

\* the end of scenario 3: IDLING, the raw dot and four Spaces sent
C8_Witness ==
    /\ script = <<>>
    /\ state = STATE_IDLING
    /\ Spaces(log) = 4

(***************************************************************************)
(* The dit/dah classification for other units.  base is a variable of the   *)
(* code that nothing assigns; here it is drawn from Units.  A run starts in *)
(* DOWN, the raw key just gone up 1 ms after the press was seen, and the    *)
(* raw key stays up: loop() is called every 1..MaxInterval ms until DOWN()  *)
(* leaves the state.  The interval measured stays below Horizon, so the     *)
(* clock's origin never holds a stamp back.                                 *)
(***************************************************************************)
MaxInterval == 160

\* the largest unit with 3*unit < 2^32: 1431655765
MaxExactUnit == 21845 * Half + 21845

Units == {35, 67, 99, 100, 101, MaxExactUnit, MaxExactUnit + 40, MaxExactUnit + 100}

\* symbols already stored when the press began
Prefilled == {<<>>, <<DASH, DOT, DOT, DOT, DOT>>, <<DOT, DOT, DOT, DOT, DOT, DOT>>}

InitClassify ==
    /\ pc = "loop"
    /\ now = Horizon
    /\ state = STATE_DOWN
    /\ keyState = KEY_DOWN
    /\ lastKeyState = KEY_UP
    /\ lastDebounceTime = Horizon
    /\ keyDownTime = Horizon - 1
    /\ keyUpTime = 0
    /\ base \in Units
    /\ Decode \in {0, 1}
    /\ \E q \in Prefilled : symbolBuffer = Padded(q) /\ symbol = Len(q)
    /\ out = NoKeyStroke
    /\ log = <<>>
    /\ script = <<>>
    /\ raw = RawUnobserved

ClassifyTick ==
    /\ state = STATE_DOWN
    /\ \E dt \in 1..MaxInterval :
         \E scrollLock \in LEDChoices(dt, KEY_UP), oob \in OOBChoices :
           /\ (now + dt) - keyDownTime <= MaxInterval
           /\ loop(dt, KEY_UP, scrollLock, oob)
    /\ UNCHANGED <<log, script, raw>>

SpecClassify == InitClassify /\ [][ClassifyTick]_vars

\* the symbol DOWN() has to store for the interval d with the unit u:
\* Dot iff d <= 1.5*u, written so that no term exceeds the unit
Expected(d, u) == IF d - u <= u \div 2 THEN DOT ELSE DASH

\* this step is DOWN() seeing the release
ReleaseSeen == state = STATE_DOWN /\ keyState' = KEY_UP

\* C1 as stated: for every unit, DOWN() seeing the release after the interval
\* d = millis() - keyDownTime stores Dot iff d <= 1.5*unit, Dah otherwise.
C1_ClassifyEveryUnit ==
    [][(ReleaseSeen /\ symbol < BufSize) =>
          /\ symbol' = symbol + 1
          /\ symbolBuffer'[symbol] = Expected(now' - keyDownTime', base)]_vars

\* C1, amended: for every unit with 3*unit < 2^32 (unit <= 1431655765),
\* DOWN() seeing the release after the interval d with room in the buffer
\* stores Dot iff d <= 1.5*unit, Dah otherwise (with the buffer full it stores
\* nothing).
C1_ClassifyWithoutOverflow ==
    [][ReleaseSeen =>
          IF symbol < BufSize
            THEN base <= MaxExactUnit =>
                   /\ symbol' = symbol + 1
                   /\ symbolBuffer'[symbol] = Expected(now' - keyDownTime', base)
                   /\ \A i \in 0..(BufSize - 1) :
                          i # symbol => symbolBuffer'[i] = symbolBuffer[i]
            ELSE symbol' = symbol /\ symbolBuffer' = symbolBuffer]_vars

\* a dot stored for an interval of exactly 1.5 units (150 ms at 100 ms)
C1_Witness ==
    /\ JustReleased
    /\ base = InitialBase
    /\ 2 * (now - keyDownTime) = 3 * base
    /\ symbol = 1
    /\ symbolBuffer[0] = DOT

(***************************************************************************)
(* Raw mode (Decode = 0) under an arbitrary environment.                    *)
(***************************************************************************)
\* C11: with decoding disabled, every step that takes the machine from DOWN to
\* RELEASE sends exactly one raw keystroke, the one of the interval's class
\* (KEY_DOT up to 1.5*base, KEY_KPAD_MINUS above), however many presses have
\* been keyed since the last character gap.
C11_RawSymbolPerRelease ==
    [][(state = STATE_DOWN /\ state' = STATE_RELEASE /\ Decode' = 0) =>
          out' = rawKeyStroke(Expected(now' - keyDownTime', base))]_vars

(***************************************************************************)
(* RELEASE()'s character-gap branch, told by its guard: the machine is in   *)
(* RELEASE, the key is still up, symbols are pending and at least 3*base    *)
(* have passed since keyUpTime.                                             *)
(***************************************************************************)
CharacterGapDue ==
    /\ state = STATE_RELEASE
    /\ keyState' = KEY_UP
    /\ symbol # 0
    /\ now' - keyUpTime' >= 3 * base

\* C12: whenever the character-gap branch of RELEASE() fires, the buffer is
\* empty afterwards (all zeros, symbol at its start) and the state is still
\* RELEASE; the step sends the decode of the pending symbols when decoding (one
\* keystroke at most, none at all when the tree has no mapping) and one Space
\* when not decoding.
C12_CharacterGapClears ==
    [][CharacterGapDue =>
          /\ state' = STATE_RELEASE
          /\ symbol' = 0
          /\ symbolBuffer' = EmptyBuffer
          /\ IF Decode' # 0
               THEN /\ \E oob \in OOBBytes : out' = decodeSymbol(symbolBuffer, oob)
                    /\ Len(out') <= 1
               ELSE out' = Plain("KEY_SPACE")]_vars

\* the character gap has just fired on a sequence without mapping: RELEASE
\* is entered with symbols pending, so an empty buffer exactly 3*base after the
\* release was emptied by this very step, and decoding sent nothing
C12_Witness ==
    /\ state = STATE_RELEASE
    /\ symbol = 0
    /\ symbolBuffer = EmptyBuffer
    /\ now - keyUpTime = 3 * base
    /\ Decode # 0
    /\ out = NoKeyStroke

(***************************************************************************)
(* The debounce against the raw signal.  raw records the samples as        *)
(* digitalRead() returned them, setup()'s included, independently of the    *)
(* code's own lastKeyState and lastDebounceTime:                            *)
(*   pin        the last sample,                                            *)
(*   since      the time of the first sample of the run of equal samples    *)
(*              the last one belongs to,                                    *)
(*   changed    the time keyState last changed (if changes = 1),            *)
(*   held       measured by a step that changes keyState: how long the raw  *)
(*              samples have been at their value (-1 for any other step),   *)
(*   separation measured by such a step: the time since the change before   *)
(*              (-1 for other steps and for the first change).              *)
(***************************************************************************)
DebounceBoot ==
    \E pin \in Pins :
        /\ setupBegin(pin)
        /\ raw' = [pin |-> pin, since |-> now, changed |-> 0, changes |-> 0,
                   held |-> -1, separation |-> -1]
        /\ UNCHANGED <<log, script>>

\* the sample is taken before the delay
DebounceBootWait ==
    \E pin \in Pins :
        LET t == IF pin = KEY_DOWN THEN now + BootPollDelay ELSE now
        IN
        /\ setupWait(pin)
        /\ raw' = [raw EXCEPT !.pin = pin,
                              !.since = Rebase(IF pin # raw.pin THEN now ELSE raw.since, t)]
        /\ UNCHANGED <<log, script>>

DebounceBootEnd ==
    /\ setupEnd
    /\ raw' = [raw EXCEPT !.since = Rebase(raw.since, now + 3 * (base * dit))]
    /\ UNCHANGED <<log, script>>

DebounceTick ==
    \E dt \in TickSteps, pin \in Pins :
      \E scrollLock \in LEDChoices(dt, pin), oob \in OOBChoices :
        LET t == now + dt
            since == IF pin # raw.pin THEN t ELSE raw.since
            chg == keyState' # keyState
        IN
        /\ loop(dt, pin, scrollLock, oob)
        /\ raw' = [pin |-> pin,
                   since |-> Rebase(since, t),
                   changed |-> IF chg THEN Rebase(t, t) ELSE Rebase(raw.changed, t),
                   changes |-> IF chg THEN 1 ELSE raw.changes,
                   held |-> IF chg THEN t - since ELSE -1,
                   separation |-> IF chg /\ raw.changes = 1 THEN t - raw.changed ELSE -1]
        /\ UNCHANGED <<log, script>>

NextDebounce == DebounceBoot \/ DebounceBootWait \/ DebounceBootEnd \/ DebounceTick

SpecDebounce == Init /\ [][NextDebounce]_vars

\* C13: under any raw samples, a step that changes keyState finds the raw
\* samples at the new value for longer than debounceDelay (50 ms), and comes
\* more than debounceDelay after the change of keyState before it.
C13_Debounce ==
    (raw # RawUnobserved /\ raw.held # -1) =>
        /\ raw.pin = keyState
        /\ raw.held > debounceDelay
        /\ raw.separation # -1 => raw.separation > debounceDelay

\* the debounced key has just gone down, as early as the ticks allow: the raw
\* samples down for 100 ms, 150 ms after keyState went up
C13_Witness ==
    /\ raw # RawUnobserved
    /\ keyState = KEY_DOWN
    /\ raw.held = 2 * debounceDelay
    /\ raw.separation = 3 * debounceDelay

(***************************************************************************)
(* Start-up with the key held (SpecDebounce: raw.pin is the sample the step *)
(* has just taken).                                                         *)
(***************************************************************************)
\* C14: if the sample setup() takes of the key reads down, Decode is set to 0
\* (setup() does not read the host's LEDs) and setup() waits; for as long as
\* the samples of the wait read down, Decode stays 0, state stays
\* STATE_UNDEFINED (IDLING is not entered), loop() is not called and nothing is
\* sent; the first sample that reads up ends the wait with Decode still 0, and
\* only then is IDLING entered and loop() called.
C14_BootHeld ==
    [][/\ (pc = "setup" /\ raw'.pin = KEY_DOWN) =>
            pc' = "wait" /\ Decode' = 0 /\ state' = STATE_UNDEFINED
       /\ (pc = "setup" /\ raw'.pin = KEY_UP) => pc' = "ready" /\ Decode' = Decode
       /\ (pc = "wait" /\ raw'.pin = KEY_DOWN) =>
            /\ pc' = "wait"
            /\ Decode = 0 /\ Decode' = 0
            /\ state' = STATE_UNDEFINED
            /\ out' = NoKeyStroke
            /\ UNCHANGED <<keyState, lastKeyState, symbolBuffer, symbol>>
       /\ (pc = "wait" /\ raw'.pin = KEY_UP) =>
            pc' = "ready" /\ Decode' = 0 /\ state' = STATE_UNDEFINED
       /\ pc = "ready" => pc' = "loop" /\ state' = STATE_IDLING /\ Decode' = Decode
       /\ state' = STATE_IDLING => pc' = "loop"
       /\ pc' = "loop" => pc \in {"ready", "loop"}]_vars

\* the key held at power-on and still held 200 ms later: setup() is waiting
C14_Witness ==
    /\ pc = "wait"
    /\ raw.pin = KEY_DOWN
    /\ now >= 4 * BootPollDelay
    /\ Decode = 0
    /\ state = STATE_UNDEFINED

(***************************************************************************)
(* The transitions of the state machine (Spec).                             *)
(***************************************************************************)
States == {STATE_IDLING, STATE_DOWN, STATE_LONGDOWN, STATE_RELEASE}

\* C15: setup() ends by setting the state to IDLING, and only then is loop()
\* called; whenever loop() dispatches through stateFuncs the state is one of
\* IDLING, DOWN, LONGDOWN, RELEASE; and every step of loop() that changes the
\* state is one of: IDLING -> DOWN and RELEASE -> DOWN with the debounced key
\* down; DOWN -> RELEASE and LONGDOWN -> IDLING with the debounced key up;
\* DOWN -> LONGDOWN with the key down at least 7*base after keyDownTime;
\* RELEASE -> IDLING with the key up at least 7*base after keyUpTime.
C15_Transitions ==
    [][/\ pc = "ready" => pc' = "loop" /\ state' = STATE_IDLING
       /\ pc' = "loop" => pc \in {"ready", "loop"} /\ state' \in States
       /\ pc = "loop" => state \in States
       /\ (pc = "loop" /\ state' # state) =>
            \/ /\ state = STATE_IDLING /\ state' = STATE_DOWN
               /\ keyState' = KEY_DOWN
            \/ /\ state = STATE_DOWN /\ state' = STATE_RELEASE
               /\ keyState' = KEY_UP
            \/ /\ state = STATE_DOWN /\ state' = STATE_LONGDOWN
               /\ keyState' = KEY_DOWN
               /\ now' - keyDownTime' >= 7 * base
            \/ /\ state = STATE_LONGDOWN /\ state' = STATE_IDLING
               /\ keyState' = KEY_UP
            \/ /\ state = STATE_RELEASE /\ state' = STATE_DOWN
               /\ keyState' = KEY_DOWN
            \/ /\ state = STATE_RELEASE /\ state' = STATE_IDLING
               /\ keyState' = KEY_UP
               /\ now' - keyUpTime' >= 7 * base]_vars

\* RELEASE has just been left for IDLING at the word gap (the word separator
\* is sent by no other step)
C15_Witness ==
    /\ state = STATE_IDLING
    /\ keyState = KEY_UP
    /\ now - keyUpTime >= 7 * base
    /\ out = Plain("KEY_SPACE")

(***************************************************************************)
(* The thresholds for other units.  A run starts as those of SpecClassify   *)
(* do, with the clock at its origin: in DOWN, the press seen at 0 and the   *)
(* raw key gone up at 1 ms; the raw key stays up and loop() is called until *)
(* the clock reads Horizon, so that no stamp is ever held back.  DOWN()     *)
(* applies 3*(base*dit)/2, RELEASE() base*characterspace and base*wordspace.*)
(***************************************************************************)
\* the largest unit with 7*unit < 2^32: 613566756
MaxUnwrappedUnit == 9362 * Half + 18724

TimingUnits ==
    {1, 2, 35, 67, InitialBase, MaxUnwrappedUnit, MaxUnwrappedUnit + 1,
     MaxExactUnit + 40}

InitTiming ==
    /\ pc = "loop"
    /\ now = 1
    /\ state = STATE_DOWN
    /\ keyState = KEY_DOWN
    /\ lastKeyState = KEY_UP
    /\ lastDebounceTime = 1
    /\ keyDownTime = 0
    /\ keyUpTime = 0
    /\ base \in TimingUnits
    /\ Decode \in {0, 1}
    /\ symbolBuffer = EmptyBuffer
    /\ symbol = 0
    /\ out = NoKeyStroke
    /\ log = <<>>
    /\ script = <<>>
    /\ raw = RawUnobserved

TimingTick ==
    /\ \E dt \in TickSteps \cup {10} :
         \E scrollLock \in LEDChoices(dt, KEY_UP), oob \in OOBChoices :
           /\ now + dt <= Horizon
           /\ loop(dt, KEY_UP, scrollLock, oob)
    /\ UNCHANGED <<log, script, raw>>

SpecTiming == InitTiming /\ [][TimingTick]_vars

LtU32(a, b) == ~LeqU32(b, a)

\* the thresholds of the unit u are in order
ThresholdsOrdered(u) ==
    /\ LtU32(ditThreshold(u), characterGap(u))
    /\ LtU32(characterGap(u), wordGap(u))

\* C16 as stated: for every unit the thresholds the handlers compute satisfy
\* 3*(base*dit)/2 < base*characterspace < base*wordspace.
C16_ThresholdsOrderedEveryUnit == ThresholdsOrdered(base)

\* C16, amended: for every unit with 7*unit < 2^32 (0 < unit <= 613566756)
\* the thresholds the handlers compute satisfy
\* 3*(base*dit)/2 < base*characterspace < base*wordspace; and in a run with
\* such a unit the word separator is never sent while symbols are pending.
C16_ThresholdsOrderedWithoutOverflow ==
    /\ [](base <= MaxUnwrappedUnit => ThresholdsOrdered(base))
    /\ [][(base <= MaxUnwrappedUnit /\ out' = wordSeparator(Decode')) =>
             symbol = 0 /\ state' = STATE_IDLING]_vars

\* the largest unit without overflow: the release has been seen and, 600 ms
\* later, neither gap has fired
C16_Witness ==
    /\ base = MaxUnwrappedUnit
    /\ state = STATE_RELEASE
    /\ symbol = 1
    /\ now - keyUpTime >= 6 * InitialBase

(***************************************************************************)
(* Late ticks.  loop() is not called at a fixed rate: a call may come a     *)
(* whole word gap after the one before (the USB stack busy, the host        *)
(* asleep).  SpecStall is Spec with such calls added.                       *)
(***************************************************************************)
StallSteps == TickSteps \cup {Horizon}

StallTick ==
    \E dt \in StallSteps, pin \in Pins :
      \E scrollLock \in LEDChoices(dt, pin), oob \in OOBChoices :
        /\ loop(dt, pin, scrollLock, oob)
        /\ UNCHANGED <<log, script, raw>>

NextStall == Boot \/ BootWait \/ BootEnd \/ StallTick

SpecStall == Init /\ [][NextStall]_vars

\* C17: a step of RELEASE() that finds the key up with symbols pending and at
\* least 7*base passed since keyUpTime takes the character gap, not the word
\* gap: it stays in RELEASE, clears the buffer and sends the decoded character
\* (one Space when not decoding); the step from RELEASE to IDLING, the only one
\* that sends the word separator, is taken with the buffer empty only.
C17_CharacterGapBeforeWordGap ==
    [][/\ (CharacterGapDue /\ now' - keyUpTime' >= 7 * base) =>
            /\ state' = STATE_RELEASE
            /\ symbol' = 0
            /\ IF Decode' # 0
                 THEN \E oob \in OOBBytes : out' = decodeSymbol(symbolBuffer, oob)
                 ELSE out' = Plain("KEY_SPACE")
       /\ (state = STATE_RELEASE /\ state' = STATE_IDLING) =>
            /\ symbol = 0
            /\ symbol' = 0
            /\ out' = wordSeparator(Decode')
       /\ (state = STATE_RELEASE /\ state' = STATE_RELEASE /\ symbol = 0) =>
            out' = NoKeyStroke]_vars

\* the first tick after the release came a whole word gap late: it has decoded
\* the pending dash (T) and the machine is still in RELEASE
C17_Witness ==
    /\ state = STATE_RELEASE
    /\ symbol = 0
    /\ now - keyUpTime >= 7 * base
    /\ Decode # 0
    /\ out = Shifted("KEY_T")

(***************************************************************************)
(* The mode flag after start-up.  In SpecMode the host's Scroll Lock LED is *)
(* free on every call of loop(), whether the call reads it or not, and raw  *)
(* records it: raw.scrollLock is the LED during the step.  loop() is called *)
(* every 100 ms.                                                            *)
(***************************************************************************)
ModeTick ==
    \E pin \in Pins, scrollLock \in BOOLEAN :
      \E oob \in OOBChoices :
        /\ loop(InitialBase, pin, scrollLock, oob)
        /\ raw' = [scrollLock |-> scrollLock]
        /\ UNCHANGED <<log, script>>

NextMode == Boot \/ BootWait \/ BootEnd \/ ModeTick

SpecMode == Init /\ [][NextMode]_vars

\* C18: a call of loop() writes Decode only when it changes keyState, and then
\* to 1 if Scroll Lock is off and to 0 if it is on, before the handler runs
\* (a release that stores a symbol sends the raw keystroke exactly if the new
\* Decode is 0); a call that does not change keyState leaves Decode as it is,
\* whatever Scroll Lock reads; so Decode does not change while the machine
\* stays in RELEASE or goes from RELEASE to IDLING.
C18_DecodeWrittenOnTransition ==
    [][pc = "loop" =>
         /\ keyState' # keyState => Decode' = IF raw'.scrollLock THEN 0 ELSE 1
         /\ keyState' = keyState => Decode' = Decode
         /\ (state = STATE_DOWN /\ state' = STATE_RELEASE /\ symbol < BufSize) =>
              (out' # NoKeyStroke <=> Decode' = 0)
         /\ (state = STATE_RELEASE /\ state' \in {STATE_RELEASE, STATE_IDLING}) =>
              Decode' = Decode]_vars

\* the character gap has just decoded a dash (T) although Scroll Lock is on by
\* now: the mode is the one read at the release
C18_Witness ==
    /\ raw # RawUnobserved
    /\ raw.scrollLock
    /\ Decode = 1
    /\ state = STATE_RELEASE
    /\ symbol = 0
    /\ out = Shifted("KEY_T")

(***************************************************************************)
(* Progress.  The Arduino core calls loop() for ever once setup() has       *)
(* returned, and millis() advances between two calls: in SpecLive the calls *)
(* of loop() are weakly fair.  The environment is that of Spec, with loop() *)
(* called every 100 ms.                                                     *)
(***************************************************************************)
LiveTick ==
    \E pin \in Pins :
      \E scrollLock \in LEDChoices(InitialBase, pin), oob \in OOBChoices :
        /\ loop(InitialBase, pin, scrollLock, oob)
        /\ UNCHANGED <<log, script, raw>>

NextLive == Boot \/ BootWait \/ BootEnd \/ LiveTick

SpecLive == Init /\ [][NextLive]_vars /\ WF_vars(LiveTick)

\* C19: if from some call of loop() on the debounced key is up and stays up,
\* the machine reaches IDLING and from then on stays in IDLING and sends
\* nothing.
C19_ReleasedLeadsToIdling ==
    <>[](pc = "loop" /\ keyState = KEY_UP) =>
        <>[](state = STATE_IDLING /\ out = NoKeyStroke)

\* the key long up: IDLING, nothing pending, nothing sent, every stamp at
\* least a word gap old
C19_Witness ==
    /\ pc = "loop"
    /\ state = STATE_IDLING
    /\ keyState = KEY_UP
    /\ out = NoKeyStroke
    /\ symbol = 0
    /\ now - keyUpTime >= 7 * base
    /\ now - lastDebounceTime >= 7 * base

(***************************************************************************)
(* The buffer in IDLING (Spec).                                             *)
(***************************************************************************)
\* C20: whenever the state is IDLING the symbol buffer is empty: all zeros,
\* symbol at its start.
C20_IdlingBufferEmpty ==
    state = STATE_IDLING => symbol = 0 /\ symbolBuffer = EmptyBuffer

(***************************************************************************)
(* Leaving IDLING against the raw signal (SpecDebounce: raw.pin is the      *)
(* sample the step has just taken, raw.since the time of the first sample   *)
(* of the run of equal samples it belongs to).                              *)
(***************************************************************************)
\* C21: a step takes the machine from IDLING to DOWN only if the raw samples
\* have read pressed for longer than debounceDelay (50 ms), the first calls of
\* loop() after setup() included.
C21_PressDebounced ==
    [][(state = STATE_IDLING /\ state' = STATE_DOWN) =>
          /\ raw'.pin = KEY_DOWN
          /\ now' - raw'.since > debounceDelay]_vars

(***************************************************************************)
(* decodeSymbol() and the end of the buffer (Spec).                         *)
(***************************************************************************)
\* C22: whenever the character gap decodes, what decodeSymbol() sends for the
\* buffer is the same whatever byte lies behind symbolBuffer[5]: the decode
\* reads nothing but the six elements of the buffer.
C22_DecodeReadsBufferOnly ==
    [][DecodeFires =>
          \A oob \in OOBBytes :
              decodeSymbol(symbolBuffer, oob) = decodeSymbol(symbolBuffer, NUL)]_vars

(***************************************************************************)
(* The form each stored symbol is output in.  In SpecForm log holds, for    *)
(* every symbol in the buffer, whether DOWN() sent its raw keystroke when   *)
(* it stored it; it is emptied with the buffer.  The environment is that of *)
(* Spec (Scroll Lock as the host has it at each accepted transition), with  *)
(* loop() called every 100 ms.                                              *)
(***************************************************************************)
FormTick ==
    \E pin \in Pins :
      \E scrollLock \in LEDChoices(InitialBase, pin), oob \in OOBChoices :
        /\ loop(InitialBase, pin, scrollLock, oob)
        /\ log' = IF symbol' = symbol + 1 THEN Append(log, out' # NoKeyStroke)
                  ELSE IF symbol' = 0 THEN <<>>
                  ELSE log
        /\ UNCHANGED <<script, raw>>

NextForm == Boot \/ BootWait \/ BootEnd \/ FormTick

SpecForm == Init /\ [][NextForm]_vars

\* C23: every symbol stored in the buffer is output in exactly one form: when
\* the character gap passes the buffer to decodeSymbol(), none of its symbols
\* was sent as a raw keystroke when it was stored; when the character gap
\* sends a Space instead, every one of them was.
C23_OneFormPerSymbol ==
    [][CharacterGapFires =>
          /\ Len(log) = symbol
          /\ \A i \in 1..Len(log) : log[i] <=> Decode' = 0]_vars

====
